---- MODULE Spec2Model ----
(***************************************************************************)
(* Cash-flow aggregator (src/cashflow/cashflow_service.py).                *)
(*                                                                         *)
(* The database tables are the state; the environment (order processing,   *)
(* returns workflow, stock receiving) inserts rows, and each read          *)
(* operation of CashFlowService is one action that computes its response   *)
(* from the tables.  Decimal values are modelled as sign/coefficient/scale *)
(* triples and every string the service produces from a Decimal is a       *)
(* sequence of one-character strings, so that str(), Decimal(str) and the  *)
(* ".2f" format are computed conversions.                                  *)
(***************************************************************************)
EXTENDS Integers, Sequences, FiniteSets, TLC

VARIABLES payments, returns, stock, supplier_returns, response, failure, calls, display

vars == <<payments, returns, stock, supplier_returns, response, failure, calls, display>>

(***************************************************************************)
(* Bounds of the model.                                                    *)
(***************************************************************************)
\* Rows stored in the database, all tables together.
MaxRows == 2

\* The Decimal values handed to format_decimal: coefficients up to
\* MaxCoefficient with up to MaxScale fractional digits, of either sign.
MaxCoefficient == 2000
MaxScale == 4

(***************************************************************************)
(* decimal.Decimal: value = (-1)^neg * c / 10^s                            *)
(***************************************************************************)
RECURSIVE Pow10(_)
Pow10(n) == IF n = 0 THEN 1 ELSE 10 * Pow10(n - 1)

Max(a, b) == IF a >= b THEN a ELSE b

Dec(neg, c, s) == [neg |-> neg, c |-> c, s |-> s]

\* Decimal('0') and Decimal(0)
DecZero == Dec(FALSE, 0, 0)

\* The signed coefficient of d at scale s (s >= d.s).
Scaled(d, s) == (IF d.neg THEN -1 ELSE 1) * d.c * Pow10(s - d.s)

\* Decimal.__add__ : the result has the larger scale; a zero sum is negative
\* only when both operands are negative zeros.
DecAdd(a, b) ==
    LET s == Max(a.s, b.s)
        v == Scaled(a, s) + Scaled(b, s)
    IN  IF v = 0
        THEN Dec(a.neg /\ b.neg /\ a.c = 0 /\ b.c = 0, 0, s)
        ELSE Dec(v < 0, IF v < 0 THEN -v ELSE v, s)

\* Decimal.__sub__ : a + (-b)
DecSub(a, b) == DecAdd(a, Dec(~b.neg, b.c, b.s))

\* Sign of the value: -1, 0, 1  (Decimal compared with 0)
DecSign(d) == IF d.c = 0 THEN 0 ELSE IF d.neg THEN -1 ELSE 1

\* Decimal.__eq__ : numeric equality, whatever the scales.
DecEq(a, b) == LET s == Max(a.s, b.s) IN Scaled(a, s) = Scaled(b, s)

(***************************************************************************)
(* Strings of digits.                                                      *)
(***************************************************************************)
DigitChars == <<"0", "1", "2", "3", "4", "5", "6", "7", "8", "9">>

IsDigit(ch) == \E i \in 1..10 : DigitChars[i] = ch

DigitVal(ch) == (CHOOSE i \in 1..10 : DigitChars[i] = ch) - 1

RECURSIVE IntChars(_)
\* str(n) for an int n >= 0
IntChars(n) ==
    IF n < 10 THEN <<DigitChars[n + 1]>>
    ELSE Append(IntChars(n \div 10), DigitChars[(n % 10) + 1])

RECURSIVE FracChars(_, _)
\* the k low digits of n, zero padded on the left
FracChars(n, k) ==
    IF k = 0 THEN <<>>
    ELSE Append(FracChars(n \div 10, k - 1), DigitChars[(n % 10) + 1])

\* Decimal.__str__ for a value whose exponent is <= 0 and whose adjusted
\* exponent is > -7 (plain notation, as many fractional digits as the scale).
DecStr(d) ==
    (IF d.neg THEN <<"-">> ELSE <<>>)
    \o IntChars(d.c \div Pow10(d.s))
    \o (IF d.s = 0 THEN <<>> ELSE <<".">> \o FracChars(d.c % Pow10(d.s), d.s))

RECURSIVE DigitsVal(_)
DigitsVal(cs) ==
    IF cs = <<>> THEN 0
    ELSE 10 * DigitsVal(SubSeq(cs, 1, Len(cs) - 1)) + DigitVal(cs[Len(cs)])

AllDigits(cs) == \A i \in 1..Len(cs) : IsDigit(cs[i])

\* Decimal(str): an optional sign, digits, an optional point and digits.
\* ok = FALSE stands for decimal.InvalidOperation (ConversionSyntax).
ParseParts(neg, ip, fp) ==
    IF Len(ip) + Len(fp) > 0 /\ AllDigits(ip) /\ AllDigits(fp)
    THEN [ok |-> TRUE,
          d  |-> Dec(neg, DigitsVal(ip) * Pow10(Len(fp)) + DigitsVal(fp), Len(fp))]
    ELSE [ok |-> FALSE, d |-> DecZero]

ParseSplit(neg, body, dots) ==
    IF Cardinality(dots) > 1 THEN [ok |-> FALSE, d |-> DecZero]
    ELSE IF dots = {} THEN ParseParts(neg, body, <<>>)
    ELSE ParseParts(neg, SubSeq(body, 1, (CHOOSE i \in dots : TRUE) - 1),
                         SubSeq(body, (CHOOSE i \in dots : TRUE) + 1, Len(body)))

ParseUnsigned(neg, body) ==
    ParseSplit(neg, body, {i \in 1..Len(body) : body[i] = "."})

DecParse(cs) ==
    IF Len(cs) > 0 /\ cs[1] = "-" THEN ParseUnsigned(TRUE, Tail(cs))
    ELSE ParseUnsigned(FALSE, cs)

\* format(d, ".2f"): rescale to two fractional digits, ROUND_HALF_EVEN, the
\* sign kept (a small negative value prints as -0.00).
Quantize2(d) ==
    IF d.s <= 2 THEN Dec(d.neg, d.c * Pow10(2 - d.s), 2)
    ELSE LET m    == Pow10(d.s - 2)
             q    == d.c \div m
             r    == d.c % m
             up   == (2 * r > m) \/ (2 * r = m /\ q % 2 = 1)
         IN  Dec(d.neg, IF up THEN q + 1 ELSE q, 2)

\* Variant: the value is shown with a thousands separator (",.2f"; values
\* below a million).
format_decimal_grouped(value) ==
    LET d == Quantize2(DecParse(DecStr(value)).d)
        n == d.c \div 100
    IN  (IF d.neg THEN <<"-">> ELSE <<>>)
        \o (IF n < 1000 THEN IntChars(n)
            ELSE IntChars(n \div 1000) \o <<",">> \o FracChars(n % 1000, 3))
        \o <<".">> \o FracChars(d.c % 100, 2)

\* CashFlowService.format_decimal(value) for a Decimal value:
\* f"{Decimal(str(value)):.2f}"
format_decimal(value) == DecStr(Quantize2(DecParse(DecStr(value)).d))

\* CashFlowService.format_decimal(value) for a str value (as the summary
\* passes it): str(value) is the string itself.
format_decimal_str(value) == DecStr(Quantize2(DecParse(value).d))

\* A string with exactly two fractional digits: digits "." digit digit.
TwoDecimalString(cs) ==
    /\ Len(cs) >= 4
    /\ cs[Len(cs) - 2] = "."
    /\ IsDigit(cs[Len(cs) - 1]) /\ IsDigit(cs[Len(cs)])
    /\ LET ip == SubSeq(cs, 1, Len(cs) - 3)
           b  == IF ip[1] = "-" THEN SubSeq(ip, 2, Len(ip)) ELSE ip
       IN  Len(b) > 0 /\ AllDigits(b)

(***************************************************************************)
(* The tables.  A table is the sequence of its rows; a row's id is its     *)
(* position (an auto-increment primary key).  Customer, Supplier and       *)
(* Product are reference rows that every foreign key resolves to, so the   *)
(* inner joins of the queries keep every row; their display names are not  *)
(* carried.                                                                *)
(***************************************************************************)
\* Decimal literals used in the tables: "0.00", "2.50", "2.505", ...
Zero2   == Dec(FALSE, 0, 2)
Amounts == {Zero2, Dec(FALSE, 250, 2), Dec(FALSE, 2505, 3)}

\* Days of one month, so that isoformat() is a short string.
Dates == {1, 2}

PaymentStatuses == {"Successful", "Partially Paid", "Failed"}

PaymentRows ==
    [payment_status : PaymentStatuses, amount_paid : Amounts, payment_date : Dates]

ReturnTypes    == {"return", "exchange"}
ReturnStatuses == {"Pending", "Processed", "Completed", "Cancelled"}
StoredReason   == "Customer request"

ReturnRows ==
    [return_type : ReturnTypes,
     refund_amount : {Zero2, Dec(FALSE, 500, 2)},
     exchange_price_difference : {Zero2, Dec(FALSE, 500, 2)},
     status : ReturnStatuses,
     return_date : Dates,
     reason : {StoredReason}]

(***************************************************************************)
(* StockTransaction.notes is free text.  Its content is modelled by what   *)
(* json.loads makes of it:                                                 *)
(*   kind "null"      notes is None (or the empty string): falsy           *)
(*   kind "malformed" not JSON: json.loads raises JSONDecodeError          *)
(*   kind "array"     JSON, but a list and not an object                   *)
(*   kind "object"    a JSON object; amt_type tells what the key           *)
(*                    payment_amount holds and amt_chars its literal       *)
(***************************************************************************)
Note(kind, amt_type, amt_chars) ==
    [kind |-> kind, amt_type |-> amt_type, amt_chars |-> amt_chars]

NoteNull      == Note("null", "absent", <<>>)
NoteMalformed == Note("malformed", "absent", <<>>)
NoteArray     == Note("array", "absent", <<>>)
NoteNoAmount  == Note("object", "absent", <<>>)
NoteNullAmt   == Note("object", "null", <<>>)
NoteArrayAmt  == Note("object", "array", <<>>)
NoteWordAmt   == Note("object", "string", <<"a", "b", "c">>)
NoteStrAmt    == Note("object", "string", <<"1", "5", "0", ".", "5", "0">>)
NoteFineAmt   == Note("object", "string", <<"0", ".", "0", "0", "4">>)
NoteNumAmt    == Note("object", "number", <<"2", ".", "5", "0">>)

Notes ==
    {NoteNull, NoteMalformed, NoteArray, NoteNoAmount, NoteNullAmt, NoteArrayAmt,
     NoteWordAmt, NoteStrAmt, NoteFineAmt, NoteNumAmt}

StockRows ==
    [transaction_type : {"Purchase"}, notes : Notes]
    \cup [transaction_type : {"Sale"}, notes : {NoteNull, NoteStrAmt}]

SupplierReturnRows ==
    [refund_amount : {Zero2, Dec(FALSE, 750, 2), Dec(FALSE, 125, 3)},
     status : {"Completed", "Pending"},
     has_damaged_product : BOOLEAN]

RowCount == Len(payments) + Len(returns) + Len(stock) + Len(supplier_returns)

(***************************************************************************)
(* Failures of the data-access layer, chosen by the environment for one    *)
(* call: none, the query raises, or the work on the k-th fetched row       *)
(* raises (a lazy load, a lookup).                                         *)
(***************************************************************************)
NoFault == [stage |-> "none", row |-> 0]

\* The faults a call that fetches n rows can meet.
Faults(n) == {NoFault, [stage |-> "query", row |-> 0]}
             \cup [stage : {"row"}, row : 1..n]

\* The faults of a call whose row work can fail at the rows ks only.
FaultsAt(ks) == {NoFault, [stage |-> "query", row |-> 0]}
                \cup [stage : {"row"}, row : ks]

\* Does the fault strike the work on the k-th fetched row?
Strikes(fault, k) == fault.stage = "row" /\ fault.row = k

DbError == "database error"

\* What a block of code yields: a value, or a raised exception's str(e).
Value(v)  == [raised |-> FALSE, value |-> v, msg |-> ""]
Raised(m) == [raised |-> TRUE, value |-> <<>>, msg |-> m]

\* What an operation gives its caller: a body, or an exception whose
\* message is f"{prefix}{str(e)}", kept as the pair <<prefix, str(e)>>.
Success(body)        == [ok |-> TRUE, body |-> body]
Failure(prefix, msg) == [ok |-> FALSE, error |-> <<prefix, msg>>]

\* except Exception as e: raise Exception(f"{prefix}{str(e)}")
Reraise(prefix, r) ==
    IF r.raised THEN Failure(prefix, r.msg) ELSE Success(r.value)

\* date.isoformat() of a day of January 2024
isoformat(day) == <<"2024-01-">> \o FracChars(day, 2)

\* "value or 0" on a Decimal column, then Decimal(...)
OrZero(v) == IF v.c = 0 THEN DecZero ELSE v

(***************************************************************************)
(* order_by(<date>.desc()).all(): the rows of ids in descending date       *)
(* order; rows of equal date come in any order.                            *)
(***************************************************************************)
Arrangements(ids) ==
    {f \in [1..Cardinality(ids) -> ids] :
        \A i, j \in 1..Cardinality(ids) : i # j => f[i] # f[j]}

PaymentsQuery ==
    LET ids == {i \in DOMAIN payments :
                  /\ payments[i].payment_status \in {"Successful", "Partially Paid"}
                  /\ DecSign(payments[i].amount_paid) > 0}
    IN  {f \in Arrangements(ids) :
           \A i, j \in DOMAIN f :
              i < j => payments[f[i]].payment_date >= payments[f[j]].payment_date}

\* Variant: the adjustments query filters on the status as the refunds
\* query does.
AdjustmentsQueryOpenOnly ==
    LET ids == {i \in DOMAIN returns :
                  /\ returns[i].return_type = "exchange"
                  /\ DecSign(returns[i].exchange_price_difference) > 0
                  /\ DecSign(returns[i].refund_amount) = 0
                  /\ returns[i].status \in {"Pending", "Processed", "Completed"}}
    IN  {f \in Arrangements(ids) :
           \A i, j \in DOMAIN f :
              i < j => returns[f[i]].return_date >= returns[f[j]].return_date}

AdjustmentsQuery ==
    LET ids == {i \in DOMAIN returns :
                  /\ returns[i].return_type = "exchange"
                  /\ DecSign(returns[i].exchange_price_difference) > 0
                  /\ DecSign(returns[i].refund_amount) = 0}
    IN  {f \in Arrangements(ids) :
           \A i, j \in DOMAIN f :
              i < j => returns[f[i]].return_date >= returns[f[j]].return_date}

(***************************************************************************)
(* get_customer_payments                                                   *)
(***************************************************************************)
CustomerPaymentsPrefix == "Error fetching customer payments: "

RegularItem(id) ==
    LET payment == payments[id]
        amount  == OrZero(payment.amount_paid)
    IN  [payment_id   |-> <<"", id>>,
         amount_paid  |-> format_decimal(amount),
         payment_date |-> isoformat(payment.payment_date),
         payment_type |-> "regular_payment",
         status       |-> payment.payment_status]

AdjustmentItem(id) ==
    LET adjustment == returns[id]
        amount     == OrZero(adjustment.exchange_price_difference)
    IN  [payment_id   |-> <<"ADJ-", id>>,
         amount_paid  |-> format_decimal(amount),
         payment_date |-> isoformat(adjustment.return_date),
         payment_type |-> "adjustment_payment",
         status       |-> "Completed"]

\* Variant: the total accumulates the amounts as they are shown.
CustomerPaymentAmountShown(row) ==
    Quantize2(IF row[1] = "payment" THEN OrZero(payments[row[2]].amount_paid)
              ELSE OrZero(returns[row[2]].exchange_price_difference))

\* The two loops, one after the other, over the fetched rows: rows is the
\* sequence of <<table, id>> in the order the loops visit them.
CustomerPaymentAmount(row) ==
    IF row[1] = "payment" THEN OrZero(payments[row[2]].amount_paid)
    ELSE OrZero(returns[row[2]].exchange_price_difference)

CustomerPaymentItem(row) ==
    IF row[1] = "payment" THEN RegularItem(row[2]) ELSE AdjustmentItem(row[2])

RECURSIVE CustomerPaymentsFold(_, _, _)
CustomerPaymentsFold(rows, k, fault) ==
    IF k = 0 THEN Value([items |-> <<>>, total |-> DecZero])
    ELSE LET prev == CustomerPaymentsFold(rows, k - 1, fault)
         IN  IF prev.raised THEN prev
             ELSE IF Strikes(fault, k) THEN Raised(DbError)
             ELSE Value([items |-> Append(prev.value.items, CustomerPaymentItem(rows[k])),
                         total |-> DecAdd(prev.value.total, CustomerPaymentAmount(rows[k]))])

CustomerPaymentsRows(pq, aq) ==
    [i \in 1..Len(pq) |-> <<"payment", pq[i]>>]
    \o [i \in 1..Len(aq) |-> <<"adjustment", aq[i]>>]

\* Lines 77-83: the result of the folded rows, or the re-raised exception.
CustomerPaymentsResult(folded) ==
    Reraise(CustomerPaymentsPrefix,
            IF folded.raised THEN folded
            ELSE Value([customer_payments |-> folded.value.items,
                        total_received |-> format_decimal(folded.value.total),
                        count |-> Len(folded.value.items)]))

get_customer_payments(pq, aq, fault) ==
    CustomerPaymentsResult(
        IF fault.stage = "query" THEN Raised(DbError)
        ELSE CustomerPaymentsFold(CustomerPaymentsRows(pq, aq), Len(pq) + Len(aq), fault))

(***************************************************************************)
(* get_customer_refunds                                                    *)
(***************************************************************************)
CustomerRefundsPrefix == "Error fetching customer refunds: "

AdjustmentReason == "Adjustment - We pay customer extra amount for product exchange"

\* Variant: the refunds query without the status filter.
RefundsQueryAnyStatus ==
    LET ids == {i \in DOMAIN returns : DecSign(returns[i].refund_amount) > 0}
    IN  {f \in Arrangements(ids) :
           \A i, j \in DOMAIN f :
              i < j => returns[f[i]].return_date >= returns[f[j]].return_date}

RefundsQuery ==
    LET ids == {i \in DOMAIN returns :
                  /\ DecSign(returns[i].refund_amount) > 0
                  /\ returns[i].status \in {"Pending", "Processed", "Completed"}}
    IN  {f \in Arrangements(ids) :
           \A i, j \in DOMAIN f :
              i < j => returns[f[i]].return_date >= returns[f[j]].return_date}

\* Variant: an exchange keeps its stored type and reason.
RefundItemStored(id) ==
    LET refund == returns[id]
        amount == OrZero(refund.refund_amount)
    IN  [return_id     |-> id,
         refund_amount |-> format_decimal(amount),
         refund_type   |-> refund.return_type,
         reason        |-> refund.reason,
         return_date   |-> isoformat(refund.return_date)]

RefundItem(id) ==
    LET refund == returns[id]
        amount == OrZero(refund.refund_amount)
        exch   == refund.return_type = "exchange"
    IN  [return_id     |-> id,
         refund_amount |-> format_decimal(amount),
         refund_type   |-> IF exch THEN "adjustment_refund" ELSE refund.return_type,
         reason        |-> IF exch THEN AdjustmentReason ELSE refund.reason,
         return_date   |-> isoformat(refund.return_date)]

RECURSIVE CustomerRefundsFold(_, _, _)
CustomerRefundsFold(rq, k, fault) ==
    IF k = 0 THEN Value([items |-> <<>>, total |-> DecZero])
    ELSE LET prev == CustomerRefundsFold(rq, k - 1, fault)
         IN  IF prev.raised THEN prev
             ELSE IF Strikes(fault, k) THEN Raised(DbError)
             ELSE Value([items |-> Append(prev.value.items, RefundItem(rq[k])),
                         total |-> DecAdd(prev.value.total,
                                          OrZero(returns[rq[k]].refund_amount))])

\* Lines 128-134: the result of the folded rows, or the re-raised exception.
CustomerRefundsResult(folded) ==
    Reraise(CustomerRefundsPrefix,
            IF folded.raised THEN folded
            ELSE Value([customer_refunds |-> folded.value.items,
                        total_refunded |-> format_decimal(folded.value.total),
                        count |-> Len(folded.value.items)]))

\* Variant: on a failure at a row, the rows folded so far are returned.
get_customer_refunds_partial(rq, fault) ==
    IF fault.stage = "query" THEN Failure(CustomerRefundsPrefix, DbError)
    ELSE CustomerRefundsResult(
            CustomerRefundsFold(rq, IF fault.stage = "row" THEN fault.row - 1 ELSE Len(rq),
                                NoFault))

get_customer_refunds(rq, fault) ==
    CustomerRefundsResult(
        IF fault.stage = "query" THEN Raised(DbError)
        ELSE CustomerRefundsFold(rq, Len(rq), fault))

(***************************************************************************)
(* get_supplier_payments                                                   *)
(***************************************************************************)
SupplierPaymentsPrefix == "Error fetching supplier payments: "

\* str(e) of the exceptions the notes of a row can raise
JSONDecodeError  == "Expecting value: line 1 column 1 (char 0)"
ValueError       == "argument must be a sequence of length 3"
AttributeError   == "'list' object has no attribute 'get'"
InvalidOperation == "[<class 'decimal.ConversionSyntax'>]"
TypeError        == "conversion from NoneType to Decimal is not supported"

\* except (json.JSONDecodeError, ValueError): pass
CaughtByNotesHandler == {JSONDecodeError, ValueError}

\* Decimal(x) of a JSON number: an int keeps its digits, a float is its
\* exact value (the literals of Notes are exact in binary), so trailing
\* zeros of the literal are gone.
RECURSIVE Normalize(_)
Normalize(d) ==
    IF d.s > 0 /\ d.c % 10 = 0 THEN Normalize(Dec(d.neg, d.c \div 10, d.s - 1)) ELSE d

\* Decimal(<str>): the value, or InvalidOperation
StringAmount(parsed) ==
    IF parsed.ok THEN Value(parsed.d) ELSE Raised(InvalidOperation)

\* The body of the inner try: json.loads(notes), then
\* Decimal(payment_info.get('payment_amount', '0')).
NotesAmount(notes) ==
    CASE notes.kind = "malformed" -> Raised(JSONDecodeError)
      [] notes.kind = "array"     -> Raised(AttributeError)
      [] notes.amt_type = "absent" -> StringAmount(DecParse(<<"0">>))
      [] notes.amt_type = "string" -> StringAmount(DecParse(notes.amt_chars))
      [] notes.amt_type = "number" -> Value(Normalize(DecParse(notes.amt_chars).d))
      [] notes.amt_type = "null"   -> Raised(TypeError)
      [] notes.amt_type = "array"  -> Raised(ValueError)

\* The handler of the inner try: a caught exception leaves payment_amount
\* at Decimal('0').
NotesHandler(r) ==
    IF r.raised /\ r.msg \in CaughtByNotesHandler THEN Value(DecZero) ELSE r

\* Lines 153-168: payment_amount of one row, or the exception that leaves
\* the inner try.
PaymentAmount(notes) ==
    IF notes.kind = "null" THEN Value(DecZero) ELSE NotesHandler(NotesAmount(notes))

\* transaction_date is the time of the insert: the newest row has the
\* highest id, and order_by(transaction_date.desc()) is descending id.
RECURSIVE Descending(_)
Descending(ids) ==
    IF ids = {} THEN <<>>
    ELSE LET m == CHOOSE i \in ids : \A j \in ids : j <= i
         IN  <<m>> \o Descending(ids \ {m})

PurchasesQuery ==
    Descending({i \in DOMAIN stock : stock[i].transaction_type = "Purchase"})

SupplierPaymentItem(id, payment_amount) ==
    [transaction_id |-> id,
     amount_paid    |-> DecStr(payment_amount),
     transaction_date |-> isoformat(id)]

\* Lines 170-196 for the row id whose payment_amount is amount; struck tells
\* whether the product lookup of the row fails.
SupplierPaymentsStep(prev, id, amount, struck) ==
    IF amount.raised THEN amount
    ELSE IF DecSign(amount.value) > 0
    THEN IF struck THEN Raised(DbError)
         ELSE Value([items |-> Append(prev.value.items,
                                      SupplierPaymentItem(id, amount.value)),
                     total |-> DecAdd(prev.value.total, amount.value)])
    ELSE prev

RECURSIVE SupplierPaymentsFold(_, _, _)
SupplierPaymentsFold(tq, k, fault) ==
    IF k = 0 THEN Value([items |-> <<>>, total |-> DecZero])
    ELSE LET prev == SupplierPaymentsFold(tq, k - 1, fault)
         IN  IF prev.raised THEN prev
             ELSE SupplierPaymentsStep(prev, tq[k], PaymentAmount(stock[tq[k]].notes),
                                       Strikes(fault, k))

\* if payment_amount > 0, for a row whose notes did not raise
IsPaid(amount) == ~amount.raised /\ DecSign(amount.value) > 0

\* The fetched rows that are included, the ones a product lookup is made for.
PaidRows(tq) ==
    {k \in 1..Len(tq) : IsPaid(PaymentAmount(stock[tq[k]].notes))}

\* Lines 198-204: the result of the folded rows, or the re-raised exception.
SupplierPaymentsResult(folded) ==
    Reraise(SupplierPaymentsPrefix,
            IF folded.raised THEN folded
            ELSE Value([supplier_payments |-> folded.value.items,
                        total_paid |-> DecStr(folded.value.total),
                        count |-> Len(folded.value.items)]))

get_supplier_payments(tq, fault) ==
    SupplierPaymentsResult(
        IF fault.stage = "query" THEN Raised(DbError)
        ELSE SupplierPaymentsFold(tq, Len(tq), fault))

(***************************************************************************)
(* get_supplier_receipts                                                   *)
(***************************************************************************)
ReceiptsQuery ==
    Descending({i \in DOMAIN supplier_returns :
                  /\ DecSign(supplier_returns[i].refund_amount) > 0
                  /\ supplier_returns[i].status = "Completed"})

ReceiptItem(id) ==
    LET receipt == supplier_returns[id]
        amount  == OrZero(receipt.refund_amount)
    IN  [return_id     |-> id,
         product_name  |-> IF receipt.has_damaged_product THEN "Product"
                           ELSE "Unknown Product",
         refund_amount |-> DecStr(amount),
         return_date   |-> isoformat(id),
         status        |-> receipt.status]

RECURSIVE SupplierReceiptsFold(_, _, _)
SupplierReceiptsFold(sq, k, fault) ==
    IF k = 0 THEN Value([items |-> <<>>, total |-> DecZero])
    ELSE LET prev == SupplierReceiptsFold(sq, k - 1, fault)
         IN  IF prev.raised THEN prev
             ELSE IF Strikes(fault, k) THEN Raised(DbError)
             ELSE Value([items |-> Append(prev.value.items, ReceiptItem(sq[k])),
                         total |-> DecAdd(prev.value.total,
                                          OrZero(supplier_returns[sq[k]].refund_amount))])

\* except Exception: return the empty result
EmptyReceipts ==
    [supplier_receipts |-> <<>>, total_received |-> <<"0", ".", "0", "0">>, count |-> 0]

\* Lines 246-257: the result of the folded rows, or the empty result.
SupplierReceiptsResult(folded) ==
    IF folded.raised THEN Success(EmptyReceipts)
    ELSE Success([supplier_receipts |-> folded.value.items,
                  total_received |-> DecStr(folded.value.total),
                  count |-> Len(folded.value.items)])

\* Variant: on a failure at a row, the rows folded so far are returned.
get_supplier_receipts_partial(sq, fault) ==
    IF fault.stage = "query" THEN Success(EmptyReceipts)
    ELSE SupplierReceiptsResult(
            SupplierReceiptsFold(sq, IF fault.stage = "row" THEN fault.row - 1 ELSE Len(sq),
                                 NoFault))

get_supplier_receipts(sq, fault) ==
    SupplierReceiptsResult(
        IF fault.stage = "query" THEN Raised(DbError)
        ELSE SupplierReceiptsFold(sq, Len(sq), fault))

(***************************************************************************)
(* get_cashflow_summary                                                    *)
(***************************************************************************)
SummaryPrefix == "Error generating cash flow summary: "

\* Decimal(s) of a total that a base operation returned
Decimal(s) == DecParse(s).d

CashPosition(net_cashflow) ==
    IF DecSign(net_cashflow) > 0 THEN "Positive"
    ELSE IF DecSign(net_cashflow) < 0 THEN "Negative"
    ELSE "Neutral"

\* Lines 283-326: the report, from the four results and the three sums.
Report(customer_payments, supplier_receipts, customer_refunds, supplier_payments, total_inflow, total_outflow, net_cashflow) ==
    [cash_inflow |->
        [customer_payments |-> format_decimal_str(customer_payments.total_received),
         supplier_refunds  |-> format_decimal_str(supplier_receipts.total_received),
         total_inflow      |-> format_decimal(total_inflow)],
     cash_outflow |->
        [customer_refunds  |-> format_decimal_str(customer_refunds.total_refunded),
         supplier_payments |-> format_decimal_str(supplier_payments.total_paid),
         total_outflow     |-> format_decimal(total_outflow)],
     net_cashflow |-> format_decimal(net_cashflow),
     detailed_breakdown |->
        [payments_received |->
            [amount |-> format_decimal_str(customer_payments.total_received),
             count  |-> customer_payments.count,
             transactions |-> customer_payments.customer_payments],
         refunds_given |->
            [amount |-> format_decimal_str(customer_refunds.total_refunded),
             count  |-> customer_refunds.count,
             transactions |-> customer_refunds.customer_refunds],
         payments_made |->
            [amount |-> format_decimal_str(supplier_payments.total_paid),
             count  |-> supplier_payments.count,
             transactions |-> supplier_payments.supplier_payments],
         refunds_received |->
            [amount |-> format_decimal_str(supplier_receipts.total_received),
             count  |-> supplier_receipts.count,
             transactions |-> supplier_receipts.supplier_receipts]],
     summary |->
        [total_customer_transactions |->
            customer_payments.count + customer_refunds.count,
         total_supplier_transactions |->
            supplier_payments.count + supplier_receipts.count,
         cash_position |-> CashPosition(net_cashflow)]]

\* Line 281: net_cashflow = total_inflow - total_outflow
ReportOfTotals(customer_payments, supplier_receipts, customer_refunds, supplier_payments, total_inflow, total_outflow) ==
    Report(customer_payments, supplier_receipts, customer_refunds, supplier_payments,
           total_inflow, total_outflow, DecSub(total_inflow, total_outflow))

\* Lines 272 and 278: the two totals, from the four results.
SummaryReport(customer_payments, supplier_receipts, customer_refunds, supplier_payments) ==
    ReportOfTotals(customer_payments, supplier_receipts, customer_refunds, supplier_payments,
                   DecAdd(Decimal(customer_payments.total_received),
                          Decimal(supplier_receipts.total_received)),
                   DecAdd(Decimal(customer_refunds.total_refunded),
                          Decimal(supplier_payments.total_paid)))

\* Variant: the failure of a base operation leaves the summary as it is,
\* without the summary's own context.
SummaryOfUnwrapped(customer_payments, supplier_receipts, customer_refunds, supplier_payments) ==
    IF ~customer_payments.ok
    THEN customer_payments
    ELSE IF ~customer_refunds.ok
    THEN customer_refunds
    ELSE IF ~supplier_payments.ok
    THEN supplier_payments
    ELSE Success(SummaryReport(customer_payments.body, supplier_receipts.body,
                               customer_refunds.body, supplier_payments.body))

\* The try block with the four results: the first of get_customer_payments,
\* get_customer_refunds and get_supplier_payments that raised ends it.
SummaryOf(customer_payments, supplier_receipts, customer_refunds, supplier_payments) ==
    IF ~customer_payments.ok
    THEN Failure(SummaryPrefix, customer_payments.error)
    ELSE IF ~customer_refunds.ok
    THEN Failure(SummaryPrefix, customer_refunds.error)
    ELSE IF ~supplier_payments.ok
    THEN Failure(SummaryPrefix, supplier_payments.error)
    ELSE Success(SummaryReport(customer_payments.body, supplier_receipts.body,
                               customer_refunds.body, supplier_payments.body))

\* The calls of lines 269-276.  q holds the query results, f the fault of
\* each call.
get_cashflow_summary(q, f) ==
    SummaryOf(get_customer_payments(q.pq, q.aq, f.customer_payments),
              get_supplier_receipts(q.sq, f.supplier_receipts),
              get_customer_refunds(q.rq, f.customer_refunds),
              get_supplier_payments(q.tq, f.supplier_payments))

BaseOps == {"customer_payments", "supplier_receipts", "customer_refunds", "supplier_payments"}

\* Variant: the report's breakdown is built from a second call of
\* get_customer_payments.
InvokedAgain(customer_payments, customer_refunds) ==
    IF ~customer_payments.ok
    THEN <<"customer_payments">>
    ELSE IF ~customer_refunds.ok
    THEN <<"customer_payments", "supplier_receipts", "customer_refunds">>
    ELSE <<"customer_payments", "supplier_receipts", "customer_refunds",
           "supplier_payments", "customer_payments">>

\* Lines 269, 270, 275 and 276: the base operations that one request of the
\* summary invokes, in order.  A call that raises ends the try block, and
\* get_supplier_receipts never raises.
Invoked(customer_payments, customer_refunds) ==
    IF ~customer_payments.ok
    THEN <<"customer_payments">>
    ELSE IF ~customer_refunds.ok
    THEN <<"customer_payments", "supplier_receipts", "customer_refunds">>
    ELSE <<"customer_payments", "supplier_receipts", "customer_refunds",
           "supplier_payments">>

SummaryCalls(q, f) ==
    Invoked(get_customer_payments(q.pq, q.aq, f.customer_payments),
            get_customer_refunds(q.rq, f.customer_refunds))

\* calls: how many times each base operation was invoked for the request
\* being answered.
Called(trace) ==
    [o \in BaseOps |-> Cardinality({k \in DOMAIN trace : trace[k] = o})]

NoCalls == Called(<<>>)

\* The operations whose failure ends the summary's try block.
RaisingOps == {"customer_payments", "customer_refunds", "supplier_payments"}

\* The faults of one summary request, one per call.  A call that raises
\* ends the request, so a fault is given to at most one of the raising
\* operations (a fault of a call that is never reached has no effect); the
\* fault of get_supplier_receipts, which is swallowed, is independent of it.
SummaryFaults(q) ==
    {f \in [customer_payments : Faults(Len(q.pq) + Len(q.aq)),
            supplier_receipts : Faults(Len(q.sq)),
            customer_refunds  : Faults(Len(q.rq)),
            supplier_payments : FaultsAt(PaidRows(q.tq))] :
        \A a, b \in RaisingOps : a # b => f[a] = NoFault \/ f[b] = NoFault}

(***************************************************************************)
(* The state machine.                                                      *)
(***************************************************************************)
\* display: a value on its way through format_decimal, and the strings that
\* the passes made of it so far.
NoDisplay == [value |-> DecZero, shown |-> <<>>]

\* The Decimal values that format_decimal is given.
DecimalValues ==
    {Dec(neg, c, s) : neg \in BOOLEAN, c \in 0..MaxCoefficient, s \in 0..MaxScale}

\* format_decimal(value) for a str value, with what Decimal(str) raises.
format_decimal_pass(value) ==
    IF DecParse(value).ok THEN Value(format_decimal_str(value))
    ELSE Raised(InvalidOperation)

Idle == [op |-> "idle"]

\* failure: where the data layer failed during the request being answered.
NoFailure == [o \in BaseOps |-> "none"]

Init ==
    /\ payments = <<>>
    /\ returns = <<>>
    /\ stock = <<>>
    /\ supplier_returns = <<>>
    /\ response = Idle
    /\ failure = NoFailure
    /\ calls = NoCalls
    /\ display = NoDisplay

InsertPayment ==
    /\ response = Idle /\ RowCount < MaxRows
    /\ \E r \in PaymentRows : payments' = Append(payments, r)
    /\ UNCHANGED <<returns, stock, supplier_returns, response, failure, calls, display>>

InsertReturn ==
    /\ response = Idle /\ RowCount < MaxRows
    /\ \E r \in ReturnRows : returns' = Append(returns, r)
    /\ UNCHANGED <<payments, stock, supplier_returns, response, failure, calls, display>>

InsertStock ==
    /\ response = Idle /\ RowCount < MaxRows
    /\ \E r \in StockRows : stock' = Append(stock, r)
    /\ UNCHANGED <<payments, returns, supplier_returns, response, failure, calls, display>>

InsertSupplierReturn ==
    /\ response = Idle /\ RowCount < MaxRows
    /\ \E r \in SupplierReturnRows : supplier_returns' = Append(supplier_returns, r)
    /\ UNCHANGED <<payments, returns, stock, response, failure, calls, display>>

CallCustomerPayments ==
    /\ response = Idle
    /\ \E pq \in PaymentsQuery, aq \in AdjustmentsQuery :
       \E fault \in Faults(Len(pq) + Len(aq)) :
          /\ response' = [op |-> "customer_payments",
                          out |-> get_customer_payments(pq, aq, fault)]
          /\ failure' = [NoFailure EXCEPT !["customer_payments"] = fault.stage]
          /\ calls' = Called(<<"customer_payments">>)
    /\ UNCHANGED <<payments, returns, stock, supplier_returns, display>>

CallCustomerRefunds ==
    /\ response = Idle
    /\ \E rq \in RefundsQuery :
       \E fault \in Faults(Len(rq)) :
          /\ response' = [op |-> "customer_refunds",
                          out |-> get_customer_refunds(rq, fault)]
          /\ failure' = [NoFailure EXCEPT !["customer_refunds"] = fault.stage]
          /\ calls' = Called(<<"customer_refunds">>)
    /\ UNCHANGED <<payments, returns, stock, supplier_returns, display>>

CallSupplierPayments ==
    /\ response = Idle
    /\ \E fault \in FaultsAt(PaidRows(PurchasesQuery)) :
          /\ response' = [op |-> "supplier_payments",
                          out |-> get_supplier_payments(PurchasesQuery, fault)]
          /\ failure' = [NoFailure EXCEPT !["supplier_payments"] = fault.stage]
          /\ calls' = Called(<<"supplier_payments">>)
    /\ UNCHANGED <<payments, returns, stock, supplier_returns, display>>

CallSupplierReceipts ==
    /\ response = Idle
    /\ \E fault \in Faults(Len(ReceiptsQuery)) :
          /\ response' = [op |-> "supplier_receipts",
                          out |-> get_supplier_receipts(ReceiptsQuery, fault)]
          /\ failure' = [NoFailure EXCEPT !["supplier_receipts"] = fault.stage]
          /\ calls' = Called(<<"supplier_receipts">>)
    /\ UNCHANGED <<payments, returns, stock, supplier_returns, display>>

CallCashflowSummary ==
    /\ response = Idle
    /\ \E pq \in PaymentsQuery, aq \in AdjustmentsQuery, rq \in RefundsQuery :
       LET q == [pq |-> pq, aq |-> aq, rq |-> rq,
                 sq |-> ReceiptsQuery, tq |-> PurchasesQuery]
       IN  \E f \in SummaryFaults(q) :
              /\ response' = [op |-> "cashflow_summary",
                              out |-> get_cashflow_summary(q, f)]
              /\ failure' = [o \in BaseOps |-> f[o].stage]
              /\ calls' = Called(SummaryCalls(q, f))
    /\ UNCHANGED <<payments, returns, stock, supplier_returns, display>>

\* The route hands the response to the client; the next request starts.
Deliver ==
    /\ response # Idle
    /\ response' = Idle
    /\ failure' = NoFailure
    /\ calls' = NoCalls
    /\ UNCHANGED <<payments, returns, stock, supplier_returns, display>>

Next ==
    \/ InsertPayment
    \/ InsertReturn
    \/ InsertStock
    \/ InsertSupplierReturn
    \/ CallCustomerPayments
    \/ CallCustomerRefunds
    \/ CallSupplierPayments
    \/ CallSupplierReceipts
    \/ CallCashflowSummary
    \/ Deliver

Spec == Init /\ [][Next]_vars

\* The customer side alone: payments and returns, and the operations that
\* read them.
NextCustomer ==
    \/ InsertPayment
    \/ InsertReturn
    \/ CallCustomerPayments
    \/ CallCustomerRefunds
    \/ Deliver

SpecCustomer == Init /\ [][NextCustomer]_vars

\* The supplier side alone.
NextSupplier ==
    \/ InsertStock
    \/ InsertSupplierReturn
    \/ CallSupplierPayments
    \/ CallSupplierReceipts
    \/ Deliver

SpecSupplier == Init /\ [][NextSupplier]_vars

\* The four base operations, without the summary.
NextBase ==
    \/ InsertPayment
    \/ InsertReturn
    \/ InsertStock
    \/ InsertSupplierReturn
    \/ CallCustomerPayments
    \/ CallCustomerRefunds
    \/ CallSupplierPayments
    \/ CallSupplierReceipts
    \/ Deliver

SpecBase == Init /\ [][NextBase]_vars

\* The summary alone: every table, read only by get_cashflow_summary.
NextSummary ==
    \/ InsertPayment
    \/ InsertReturn
    \/ InsertStock
    \/ InsertSupplierReturn
    \/ CallCashflowSummary
    \/ Deliver

SpecSummary == Init /\ [][NextSummary]_vars

\* format_decimal alone: a Decimal value is formatted, and the string is
\* formatted again, as get_cashflow_summary formats the totals that the
\* base operations formatted.
InitFormat ==
    /\ payments = <<>>
    /\ returns = <<>>
    /\ stock = <<>>
    /\ supplier_returns = <<>>
    /\ response = Idle
    /\ failure = NoFailure
    /\ calls = NoCalls
    /\ \E value \in DecimalValues : display = [value |-> value, shown |-> <<>>]

FormatValue ==
    /\ display.shown = <<>>
    /\ display' = [display EXCEPT !.shown = <<Value(format_decimal(display.value))>>]
    /\ UNCHANGED <<payments, returns, stock, supplier_returns, response, failure, calls>>

FormatShown ==
    /\ Len(display.shown) = 1
    /\ ~display.shown[1].raised
    /\ display' = [display EXCEPT
                       !.shown = Append(@, format_decimal_pass(display.shown[1].value))]
    /\ UNCHANGED <<payments, returns, stock, supplier_returns, response, failure, calls>>

NextFormat ==
    \/ FormatValue
    \/ FormatShown

SpecFormat == InitFormat /\ [][NextFormat]_vars

(***************************************************************************)
(* Properties.                                                             *)
(***************************************************************************)
Answered(op) == response.op = op /\ response.out.ok

\* The numeric value of a money string, in thousandths.
Thousandths(cs) == Scaled(DecParse(cs).d, 3)

\* ---------------------------------------------------------------- C1 ----
\* A notes blob that is not a well-formed payment record: not JSON, JSON
\* but no object, or an object whose payment_amount is no number.
BadNotes(n) ==
    \/ n.kind \in {"malformed", "array"}
    \/ /\ n.kind = "object"
       /\ \/ n.amt_type \in {"null", "array"}
          \/ n.amt_type = "string" /\ ~DecParse(n.amt_chars).ok

\* The payment a well-formed notes blob records (zero when it records none).
RecordedAmount(n) ==
    IF n.kind = "object" /\ n.amt_type \in {"string", "number"} /\ ~BadNotes(n)
    THEN DecParse(n.amt_chars).d
    ELSE DecZero

PaidPurchases ==
    {i \in DOMAIN stock : /\ stock[i].transaction_type = "Purchase"
                          /\ ~BadNotes(stock[i].notes)
                          /\ DecSign(RecordedAmount(stock[i].notes)) > 0}

RECURSIVE PaidTotal(_)
PaidTotal(ids) ==
    IF ids = {} THEN 0
    ELSE LET i == CHOOSE x \in ids : TRUE
         IN  Scaled(RecordedAmount(stock[i].notes), 3) + PaidTotal(ids \ {i})

\* C1: when the data layer does not fail, get_supplier_payments succeeds
\* whatever the notes of the Purchase rows hold; it lists exactly the rows
\* with a well-formed positive payment, newest first, and total_paid is
\* their sum: a row with a bad notes blob is skipped and adds nothing.
C1_BadNotesAreSkipped ==
    (response.op = "supplier_payments" /\ failure["supplier_payments"] = "none") =>
        /\ response.out.ok
        /\ [k \in 1..Len(response.out.body.supplier_payments) |->
               response.out.body.supplier_payments[k].transaction_id]
           = Descending(PaidPurchases)
        /\ Thousandths(response.out.body.total_paid) = PaidTotal(PaidPurchases)

\* ---------------------------------------------------------------- C2 ----
CashPositionOf(thousandths) ==
    IF thousandths > 0 THEN "Positive"
    ELSE IF thousandths < 0 THEN "Negative"
    ELSE "Neutral"

\* C2: in every report of get_cashflow_summary the reported net_cashflow is
\* the reported total_inflow minus the reported total_outflow, and
\* cash_position is the sign of the reported net (0.00 is Neutral).
C2_NetIsInflowMinusOutflow ==
    Answered("cashflow_summary") =>
        LET report == response.out.body
            net    == Thousandths(report.net_cashflow)
        IN  /\ net = Thousandths(report.cash_inflow.total_inflow)
                     - Thousandths(report.cash_outflow.total_outflow)
            /\ report.summary.cash_position = CashPositionOf(net)

\* ---------------------------------------------------------------- C3 ----
\* The stored amount behind an item of the customer_payments list.
StoredAmount(item) ==
    IF item.payment_id[1] = "ADJ-"
    THEN returns[item.payment_id[2]].exchange_price_difference
    ELSE payments[item.payment_id[2]].amount_paid

RECURSIVE StoredSum(_)
StoredSum(items) ==
    IF items = <<>> THEN DecZero
    ELSE DecAdd(StoredSum(Tail(items)), StoredAmount(Head(items)))

RECURSIVE ShownSum(_)
\* The sum of the amount_paid strings of the items, in thousandths.
ShownSum(items) ==
    IF items = <<>> THEN 0
    ELSE Thousandths(Head(items).amount_paid) + ShownSum(Tail(items))

\* A Decimal shown with two fractional digits loses nothing.
TwoDigits(d) == d.s <= 2 \/ d.c % Pow10(d.s - 2) = 0

\* The two-decimal string cs shows the Decimal d: it is within half a cent
\* of d.
Shows(cs, d) ==
    /\ TwoDecimalString(cs)
    /\ LET diff == Thousandths(cs) * Pow10(Max(d.s, 3) - 3) - Scaled(d, Max(d.s, 3))
       IN  2 * diff <= Pow10(Max(d.s, 3) - 2) /\ -2 * diff <= Pow10(Max(d.s, 3) - 2)

\* C3: total_received of get_customer_payments is the sum, at full
\* precision, of the stored amounts of the listed items (regular and
\* adjustment), shown with two decimals; when no stored amount has more than
\* two fractional digits it is exactly the sum of the amount_paid strings.
C3_TotalIsSumOfListedAmounts ==
    Answered("customer_payments") =>
        LET body == response.out.body
            sum  == StoredSum(body.customer_payments)
        IN  /\ Shows(body.total_received, sum)
            /\ TwoDigits(sum) => DecEq(Decimal(body.total_received), sum)
            /\ (\A k \in 1..Len(body.customer_payments) :
                   TwoDigits(StoredAmount(body.customer_payments[k])))
               => Thousandths(body.total_received) = ShownSum(body.customer_payments)

\* Witness of C3: a list of two items whose shown amounts do not add up to
\* the total, because the total is rounded after the sum.
C3_Witness ==
    /\ Answered("customer_payments")
    /\ Len(response.out.body.customer_payments) = 2
    /\ Thousandths(response.out.body.total_received)
       # ShownSum(response.out.body.customer_payments)

\* ---------------------------------------------------------------- C4 ----
\* The day of an isoformat() string.
DayOf(iso) == DigitsVal(SubSeq(iso, 2, 3))

\* C4: the customer_payments list is in descending date order over the
\* whole list, regular and adjustment items alike.
C4_ListIsDateDescending ==
    Answered("customer_payments") =>
        LET items == response.out.body.customer_payments
        IN  \A i, j \in 1..Len(items) :
               i < j => DayOf(items[i].payment_date) >= DayOf(items[j].payment_date)

\* ---------------------------------------------------------------- C5 ----
\* An exchange on which the customer pays the difference.
PaysExtra(r) ==
    /\ r.return_type = "exchange"
    /\ DecSign(r.refund_amount) = 0
    /\ DecSign(r.exchange_price_difference) > 0

\* The positions of the customer_payments list that show return id.
AdjustmentPositions(id) ==
    {k \in 1..Len(response.out.body.customer_payments) :
        response.out.body.customer_payments[k].payment_id = <<"ADJ-", id>>}

\* The positions of the customer_refunds list that show return id.
RefundPositions(id) ==
    {k \in 1..Len(response.out.body.customer_refunds) :
        response.out.body.customer_refunds[k].return_id = id}

\* C5: an exchange row with refund_amount = 0 and exchange_price_difference
\* > 0, whatever its status, is in the customer_payments list exactly once,
\* as an adjustment_payment with id ADJ-<id> and its
\* exchange_price_difference as amount, and is never in the customer_refunds
\* list.
C5_PaysExtraIsAPayment ==
    \A id \in DOMAIN returns :
        PaysExtra(returns[id]) =>
            /\ Answered("customer_payments") =>
                  /\ Cardinality(AdjustmentPositions(id)) = 1
                  /\ \A k \in AdjustmentPositions(id) :
                        LET item == response.out.body.customer_payments[k]
                        IN  /\ item.payment_type = "adjustment_payment"
                            /\ Shows(item.amount_paid,
                                     returns[id].exchange_price_difference)
                            /\ TwoDigits(returns[id].exchange_price_difference)
                               => DecEq(Decimal(item.amount_paid),
                                        returns[id].exchange_price_difference)
            /\ Answered("customer_refunds") => RefundPositions(id) = {}

\* Witness of C5: a cancelled pays-extra exchange is listed as a payment.
C5_Witness ==
    /\ Answered("customer_payments")
    /\ \E id \in DOMAIN returns :
          /\ PaysExtra(returns[id])
          /\ returns[id].status = "Cancelled"
          /\ AdjustmentPositions(id) # {}

\* ---------------------------------------------------------------- C6 ----
\* An exchange on which the business pays the difference.
PaysBack(r) ==
    /\ r.return_type = "exchange"
    /\ DecSign(r.refund_amount) > 0
    /\ DecSign(r.exchange_price_difference) = 0

ShownAsAdjustmentRefund(id) ==
    /\ Cardinality(RefundPositions(id)) = 1
    /\ \A k \in RefundPositions(id) :
          LET item == response.out.body.customer_refunds[k]
          IN  /\ item.refund_type = "adjustment_refund"
              /\ item.reason = AdjustmentReason
              /\ item.reason # returns[id].reason

\* C6 as stated: every exchange row with refund_amount > 0 and
\* exchange_price_difference = 0 is in the customer_refunds list as an
\* adjustment_refund with the synthesized reason, and never in the
\* customer_payments list.
C6_PaysBackIsARefund ==
    \A id \in DOMAIN returns :
        PaysBack(returns[id]) =>
            /\ Answered("customer_refunds") => ShownAsAdjustmentRefund(id)
            /\ Answered("customer_payments") => AdjustmentPositions(id) = {}

\* C6 amended: the row is in the customer_refunds list when its status is
\* Pending, Processed or Completed, and absent from it when Cancelled; it is
\* never in the customer_payments list, whatever its status.
C6_OpenPaysBackIsARefund ==
    \A id \in DOMAIN returns :
        PaysBack(returns[id]) =>
            /\ Answered("customer_refunds") =>
                  IF returns[id].status \in {"Pending", "Processed", "Completed"}
                  THEN ShownAsAdjustmentRefund(id)
                  ELSE RefundPositions(id) = {}
            /\ Answered("customer_payments") => AdjustmentPositions(id) = {}

\* Witness of C6: a pays-back exchange listed as an adjustment refund.
C6_Witness ==
    /\ Answered("customer_refunds")
    /\ \E id \in DOMAIN returns :
          PaysBack(returns[id]) /\ ShownAsAdjustmentRefund(id)

\* ---------------------------------------------------------------- C7 ----
Refundable ==
    {id \in DOMAIN returns :
        /\ DecSign(returns[id].refund_amount) > 0
        /\ returns[id].status \in {"Pending", "Processed", "Completed"}}

RECURSIVE RefundableSum(_)
RefundableSum(ids) ==
    IF ids = {} THEN DecZero
    ELSE LET i == CHOOSE x \in ids : TRUE
         IN  DecAdd(RefundableSum(ids \ {i}), returns[i].refund_amount)

\* C7: the customer_refunds list holds exactly the rows with refund_amount
\* > 0 and status Pending, Processed or Completed, each once; a Cancelled
\* row is never listed and adds nothing to total_refunded.
C7_RefundsAreTheOpenRows ==
    Answered("customer_refunds") =>
        LET body == response.out.body
        IN  /\ \A id \in DOMAIN returns :
                  Cardinality(RefundPositions(id))
                  = (IF id \in Refundable THEN 1 ELSE 0)
            /\ Len(body.customer_refunds) = Cardinality(Refundable)
            /\ body.count = Cardinality(Refundable)
            /\ \A k \in 1..Len(body.customer_refunds) :
                  returns[body.customer_refunds[k].return_id].status # "Cancelled"
            /\ Shows(body.total_refunded, RefundableSum(Refundable))
            /\ TwoDigits(RefundableSum(Refundable))
               => DecEq(Decimal(body.total_refunded), RefundableSum(Refundable))

\* Witness of C7: a Cancelled row with a refund amount is left out while an
\* open row is listed.
C7_Witness ==
    /\ Answered("customer_refunds")
    /\ Len(response.out.body.customer_refunds) = 1
    /\ \E id \in DOMAIN returns :
          /\ returns[id].status = "Cancelled"
          /\ DecSign(returns[id].refund_amount) > 0

\* ---------------------------------------------------------------- C8 ----
Receivable ==
    {id \in DOMAIN supplier_returns :
        /\ DecSign(supplier_returns[id].refund_amount) > 0
        /\ supplier_returns[id].status = "Completed"}

\* C8: get_supplier_receipts never raises; when its query or the work on
\* one of its rows fails, it answers supplier_receipts = [], total_received
\* = "0.00", count = 0, with nothing of the rows folded before the failure,
\* and when nothing fails it lists the completed rows with a refund.
C8_ReceiptsFailureIsEmpty ==
    response.op = "supplier_receipts" =>
        /\ response.out.ok
        /\ failure["supplier_receipts"] # "none" =>
              /\ response.out.body.supplier_receipts = <<>>
              /\ response.out.body.total_received = <<"0", ".", "0", "0">>
              /\ response.out.body.count = 0
        /\ failure["supplier_receipts"] = "none" =>
              response.out.body.count = Cardinality(Receivable)

\* Witness of C8: the work on a row fails when two rows were fetched.
C8_Witness ==
    /\ response.op = "supplier_receipts"
    /\ failure["supplier_receipts"] = "row"
    /\ Cardinality(Receivable) = 2
    /\ response.out.body.count = 0

\* ---------------------------------------------------------------- C9 ----
PrefixOf(op) ==
    CASE op = "customer_payments" -> CustomerPaymentsPrefix
      [] op = "customer_refunds"  -> CustomerRefundsPrefix
      [] op = "supplier_payments" -> SupplierPaymentsPrefix

\* Notes whose parsing raises an exception that the per-row handler does
\* not catch.
RaisingNotes(n) ==
    \/ n.kind = "array"
    \/ n.kind = "object" /\ n.amt_type = "null"
    \/ n.kind = "object" /\ n.amt_type = "string" /\ ~DecParse(n.amt_chars).ok

\* A failure occurred in the call of op: in the data layer, or in the notes
\* of a Purchase row.
FailureIn(op) ==
    \/ failure[op] # "none"
    \/ /\ op = "supplier_payments"
       /\ \E i \in DOMAIN stock : /\ stock[i].transaction_type = "Purchase"
                                  /\ RaisingNotes(stock[i].notes)

\* C9: when a failure occurs in get_customer_payments, get_customer_refunds
\* or get_supplier_payments, in the query or at any row, the operation
\* raises one exception whose message starts with the operation's context
\* text, and gives no list, total or count.
C9_FailureIsOnePrefixedError ==
    \A op \in RaisingOps :
        (response.op = op /\ FailureIn(op)) =>
            /\ ~response.out.ok
            /\ DOMAIN response.out = {"ok", "error"}
            /\ Len(response.out.error) = 2
            /\ response.out.error[1] = PrefixOf(op)

\* Witness of C9: the work on a row of get_customer_payments fails when two
\* rows were fetched.
C9_Witness ==
    /\ response.op = "customer_payments"
    /\ failure["customer_payments"] = "row"
    /\ Len(payments) + Len(returns) = 2
    /\ \E pq \in PaymentsQuery, aq \in AdjustmentsQuery : Len(pq) + Len(aq) = 2
    /\ ~response.out.ok

\* --------------------------------------------------------------- C10 ----
AllTwoDecimal(items, Amount(_)) ==
    \A k \in 1..Len(items) : TwoDecimalString(Amount(items[k]))

AmountPaidOf(item)   == item.amount_paid
RefundAmountOf(item) == item.refund_amount

CustomerPaymentsMoney(body) ==
    /\ TwoDecimalString(body.total_received)
    /\ AllTwoDecimal(body.customer_payments, AmountPaidOf)

CustomerRefundsMoney(body) ==
    /\ TwoDecimalString(body.total_refunded)
    /\ AllTwoDecimal(body.customer_refunds, RefundAmountOf)

SupplierPaymentsMoney(body) ==
    /\ TwoDecimalString(body.total_paid)
    /\ AllTwoDecimal(body.supplier_payments, AmountPaidOf)

SupplierReceiptsMoney(body) ==
    /\ TwoDecimalString(body.total_received)
    /\ AllTwoDecimal(body.supplier_receipts, RefundAmountOf)

SummaryMoney(report) ==
    /\ \A k \in DOMAIN report.cash_inflow : TwoDecimalString(report.cash_inflow[k])
    /\ \A k \in DOMAIN report.cash_outflow : TwoDecimalString(report.cash_outflow[k])
    /\ TwoDecimalString(report.net_cashflow)
    /\ \A k \in DOMAIN report.detailed_breakdown :
          TwoDecimalString(report.detailed_breakdown[k].amount)
    /\ AllTwoDecimal(report.detailed_breakdown.payments_received.transactions, AmountPaidOf)
    /\ AllTwoDecimal(report.detailed_breakdown.refunds_given.transactions, RefundAmountOf)
    /\ AllTwoDecimal(report.detailed_breakdown.payments_made.transactions, AmountPaidOf)
    /\ AllTwoDecimal(report.detailed_breakdown.refunds_received.transactions, RefundAmountOf)

\* C10: every monetary value in a result of the four base operations and of
\* get_cashflow_summary, per item and total, with zero, one or many rows,
\* is a string with exactly two fractional digits.
C10_MoneyHasTwoDecimals ==
    /\ Answered("customer_payments") => CustomerPaymentsMoney(response.out.body)
    /\ Answered("customer_refunds")  => CustomerRefundsMoney(response.out.body)
    /\ Answered("supplier_payments") => SupplierPaymentsMoney(response.out.body)
    /\ Answered("supplier_receipts") => SupplierReceiptsMoney(response.out.body)
    /\ Answered("cashflow_summary")  => SummaryMoney(response.out.body)

\* --------------------------------------------------------------- C11 ----
\* The payments that count as received.
ReceivedPayments ==
    {id \in DOMAIN payments :
        /\ payments[id].payment_status \in {"Successful", "Partially Paid"}
        /\ DecSign(payments[id].amount_paid) > 0}

\* The exchanges on which the customer pays the difference.
Adjustable == {id \in DOMAIN returns : PaysExtra(returns[id])}

RECURSIVE ReceivableSum(_)
ReceivableSum(ids) ==
    IF ids = {} THEN DecZero
    ELSE LET i == CHOOSE x \in ids : TRUE
         IN  DecAdd(ReceivableSum(ids \ {i}), supplier_returns[i].refund_amount)

\* The rows that a list of items shows, by the key of its items.
Listed(items, Key(_)) == {Key(items[k]) : k \in 1..Len(items)}

\* No row is shown twice in the list.
ListedOnce(items, Key(_)) ==
    \A i, j \in 1..Len(items) : Key(items[i]) = Key(items[j]) => i = j

PaymentIdOf(item)     == item.payment_id
ReturnIdOf(item)      == item.return_id
TransactionIdOf(item) == item.transaction_id

\* A section of the detailed breakdown counts its own list, each row once.
SectionCountsItsList(section, Key(_)) ==
    /\ section.count = Len(section.transactions)
    /\ ListedOnce(section.transactions, Key)

\* The supplier receipts behind the report: none when the call failed and
\* answered empty.
ReceiptsBehind ==
    IF failure["supplier_receipts"] = "none" THEN Receivable ELSE {}

\* The four lists of the report show the rows of the tables that qualify,
\* and nothing else.
ReportListsTheRows(breakdown) ==
    /\ Listed(breakdown.payments_received.transactions, PaymentIdOf)
       = {<<"", id>> : id \in ReceivedPayments} \cup {<<"ADJ-", id>> : id \in Adjustable}
    /\ Listed(breakdown.refunds_given.transactions, ReturnIdOf) = Refundable
    /\ Listed(breakdown.payments_made.transactions, TransactionIdOf) = PaidPurchases
    /\ Listed(breakdown.refunds_received.transactions, ReturnIdOf) = ReceiptsBehind

\* Every amount of the report is the total of the rows of its own list,
\* and each total of the top of the report adds two of them.
ReportTotalsTheLists(report) ==
    LET breakdown == report.detailed_breakdown
    IN  /\ Shows(breakdown.payments_received.amount,
                 StoredSum(breakdown.payments_received.transactions))
        /\ Shows(breakdown.refunds_given.amount, RefundableSum(Refundable))
        /\ Shows(breakdown.payments_made.amount, Dec(FALSE, PaidTotal(PaidPurchases), 3))
        /\ Shows(breakdown.refunds_received.amount, ReceivableSum(ReceiptsBehind))
        /\ report.cash_inflow.customer_payments = breakdown.payments_received.amount
        /\ report.cash_inflow.supplier_refunds = breakdown.refunds_received.amount
        /\ report.cash_outflow.customer_refunds = breakdown.refunds_given.amount
        /\ report.cash_outflow.supplier_payments = breakdown.payments_made.amount
        /\ Shows(report.cash_inflow.total_inflow,
                 DecAdd(Decimal(breakdown.payments_received.amount),
                        ReceivableSum(ReceiptsBehind)))
        /\ Shows(report.cash_outflow.total_outflow,
                 DecAdd(Decimal(breakdown.refunds_given.amount),
                        Dec(FALSE, PaidTotal(PaidPurchases), 3)))

ReportCountsTheLists(report) ==
    LET breakdown == report.detailed_breakdown
    IN  /\ SectionCountsItsList(breakdown.payments_received, PaymentIdOf)
        /\ SectionCountsItsList(breakdown.refunds_given, ReturnIdOf)
        /\ SectionCountsItsList(breakdown.payments_made, TransactionIdOf)
        /\ SectionCountsItsList(breakdown.refunds_received, ReturnIdOf)
        /\ report.summary.total_customer_transactions
           = Cardinality(ReceivedPayments) + Cardinality(Adjustable) + Cardinality(Refundable)
        /\ report.summary.total_supplier_transactions
           = Cardinality(PaidPurchases) + Cardinality(ReceiptsBehind)

\* C11: a successful get_cashflow_summary has invoked each of the four base
\* operations exactly once; every list of its report shows the qualifying
\* rows once each, every count is the length of its list, and every total
\* is the total of the rows of its list, so that no row is counted twice.
C11_EachBaseOperationOnce ==
    Answered("cashflow_summary") =>
        /\ \A o \in BaseOps : calls[o] = 1
        /\ ReportListsTheRows(response.out.body.detailed_breakdown)
        /\ ReportCountsTheLists(response.out.body)
        /\ ReportTotalsTheLists(response.out.body)

\* Witness of C11: a report over a payment and a pays-extra exchange, both
\* counted as customer transactions.
C11_Witness ==
    /\ Answered("cashflow_summary")
    /\ \A o \in BaseOps : calls[o] = 1
    /\ Cardinality(ReceivedPayments) = 1 /\ Cardinality(Adjustable) = 1
    /\ response.out.body.summary.total_customer_transactions = 2
    /\ response.out.body.detailed_breakdown.payments_received.count = 2

\* --------------------------------------------------------------- C12 ----
\* C12: format_decimal is idempotent: the string that format_decimal makes
\* of a Decimal value, handed to format_decimal again, is formatted without
\* an error into the same string.
C12_FormatIsIdempotent ==
    Len(display.shown) = 2 =>
        /\ ~display.shown[2].raised
        /\ display.shown[2].value = display.shown[1].value

\* Witness of C12: -1.565 is rounded half to even, to -1.56, and formatted
\* twice.
C12_Witness ==
    /\ display.value = Dec(TRUE, 1565, 3)
    /\ Len(display.shown) = 2
    /\ display.shown[1].value = <<"-", "1", ".", "5", "6">>

\* --------------------------------------------------------------- C13 ----
\* The first base operation, in the order of the calls, in which a failure
\* occurs.
FirstFailing ==
    IF FailureIn("customer_payments") THEN "customer_payments"
    ELSE IF FailureIn("customer_refunds") THEN "customer_refunds"
    ELSE "supplier_payments"

\* The messages of the failures of the data layer and of the notes.
BaseMessages == {DbError, AttributeError, InvalidOperation, TypeError}

\* The report shows no supplier receipt at all.
NoReceiptsReported(report) ==
    /\ report.cash_inflow.supplier_refunds = <<"0", ".", "0", "0">>
    /\ report.detailed_breakdown.refunds_received.amount = <<"0", ".", "0", "0">>
    /\ report.detailed_breakdown.refunds_received.count = 0
    /\ report.detailed_breakdown.refunds_received.transactions = <<>>

\* C13: when get_supplier_receipts fails (its query, or the work on a row)
\* and no failure occurs in the other three base operations,
\* get_cashflow_summary succeeds and its report shows a supplier refund
\* inflow of 0.00, a refunds_received count of 0 and an empty list; when a
\* failure occurs in get_customer_payments, get_customer_refunds or
\* get_supplier_payments, it raises one error, made of the summary's
\* context text and the error of the first failing base operation (that
\* operation's context text and the message of the failure), and gives no
\* report.
C13_SummaryFailureComposition ==
    response.op = "cashflow_summary" =>
        IF \E o \in RaisingOps : FailureIn(o)
        THEN /\ ~response.out.ok
             /\ DOMAIN response.out = {"ok", "error"}
             /\ Len(response.out.error) = 2
             /\ response.out.error[1] = SummaryPrefix
             /\ Len(response.out.error[2]) = 2
             /\ response.out.error[2][1] = PrefixOf(FirstFailing)
             /\ response.out.error[2][2] \in BaseMessages
        ELSE /\ response.out.ok
             /\ failure["supplier_receipts"] # "none"
                => NoReceiptsReported(response.out.body)

\* Witness of C13: the receipts query fails with a completed supplier return
\* and a payment stored; the summary reports the payment and no receipt.
C13_Witness ==
    /\ Answered("cashflow_summary")
    /\ failure = [NoFailure EXCEPT !["supplier_receipts"] = "query"]
    /\ Receivable # {} /\ ReceivedPayments # {}
    /\ NoReceiptsReported(response.out.body)
    /\ response.out.body.detailed_breakdown.payments_received.count = 1

\* Second witness of C13: the query of get_customer_refunds fails after
\* get_customer_payments listed a payment; the summary raises.
C13_RaisedWitness ==
    /\ response.op = "cashflow_summary"
    /\ failure = [NoFailure EXCEPT !["customer_refunds"] = "query"]
    /\ ReceivedPayments # {}
    /\ response.out = Failure(SummaryPrefix, <<CustomerRefundsPrefix, DbError>>)

====
